---- MODULE Spec2Model ----
(***************************************************************************)
(* The notebook finance/importing-bank-transactions.ipynb: six code cells  *)
(* that load a bank export with pandas.read_csv into the kernel global     *)
(* `transactions` and clean it statement by statement (rename, concatenate *)
(* the two description columns, drop the second one, print).               *)
(*                                                                         *)
(* Text is a sequence of one-character strings, so that parsing,           *)
(* separator stripping and concatenation are computed character by         *)
(* character.  A DataFrame is stored column-wise with the dtype of each    *)
(* column.  The library calls are modelled by what pandas 2.x does for     *)
(* them with the arguments the cells pass (C engine, default na_values,    *)
(* default errors="ignore" of rename, on_bad_lines not involved since      *)
(* every row has the header's number of fields).                           *)
(***************************************************************************)
EXTENDS Integers, Sequences, FiniteSets, TLC

VARIABLES files, transactions, pc, printed

vars == <<files, transactions, pc, printed>>

(* Largest number of data rows in an export file. *)
MaxRows == 2

----------------------------------------------------------------------------
(* Text *)

Digits == <<"0", "1", "2", "3", "4", "5", "6", "7", "8", "9">>

IsDigit(c) == \E i \in 1..10 : Digits[i] = c

DigitVal(c) == (CHOOSE i \in 1..10 : Digits[i] = c) - 1

AllDigits(t) == \A i \in 1..Len(t) : IsDigit(t[i])

RECURSIVE NatVal(_)
NatVal(t) ==
  IF t = <<>> THEN 0
  ELSE NatVal(SubSeq(t, 1, Len(t) - 1)) * 10 + DigitVal(t[Len(t)])

Remove(t, c) == SelectSeq(t, LAMBDA x : x # c)

(* The literal " - " of the concatenation statements. *)
Separator == <<" ", "-", " ">>

(* thousands="," of cells 9 and 11; the empty string stands for the        *)
(* parameter left at its default (no separator).                           *)
Comma == ","
NoThousands == ""

----------------------------------------------------------------------------
(* The export files.  02.csv has four fields per line, 01.csv three.       *)

(* 02.csv line 1 as recorded in the cell-3 output *)
Row0 ==
  <<<<"2", "0", "2", "4", "0", "4", "0", "4">>,
    <<"M", "y", " ", "O", "n", "l", "i", "n", "e", " ", "S", "h", "o", "p", " ", "X", "Y", "Z">>,
    <<"I", "n", "v", "o", "i", "c", "e", " ", "1", "2", "3", "4">>,
    <<"-", "1", "2", "3", ".", "4", "5">>>>

(* 02.csv line 3 as recorded in the cell-3 output *)
Row2 ==
  <<<<"2", "0", "2", "4", "0", "4", "0", "2">>,
    <<"M", "y", " ", "E", "m", "p", "l", "o", "y", "e", "r">>,
    <<"A", "p", "r", "i", "l", " ", "2", "0", "2", "4">>,
    <<"1", ",", "2", "3", "4", ".", "5", "6">>>>

(* an empty second fragment and a separator outside a three-digit group *)
RowEmptyFragment ==
  <<<<"2", "0", "2", "4", "0", "4", "0", "2">>,
    <<"M", "y", " ", "E", "m", "p", "l", "o", "y", "e", "r">>,
    <<>>,
    <<"1", ",", "2", "3">>>>

(* a date written year-month-day with dashes *)
RowBadDate ==
  <<<<"2", "0", "2", "4", "-", "0", "4", "-", "0", "4">>,
    <<"M", "y", " ", "E", "m", "p", "l", "o", "y", "e", "r">>,
    <<"A", "p", "r", "i", "l", " ", "2", "0", "2", "4">>,
    <<"-", "5", "4", ".", "3", "2">>>>

(* a first fragment that is a number with a separator *)
RowNumericFragment ==
  <<<<"2", "0", "2", "4", "0", "4", "0", "5">>,
    <<"1", ",", "2", "3", "4">>,
    <<"A", "p", "r", "i", "l", " ", "2", "0", "2", "4">>,
    <<"7">>>>

(* an NA marker as second fragment and an amount that starts with the separator *)
RowLeadingSeparator ==
  <<<<"2", "0", "2", "4", "0", "4", "0", "3">>,
    <<"M", "y", " ", "E", "m", "p", "l", "o", "y", "e", "r">>,
    <<"N", "A">>,
    <<",", "5">>>>

(* an amount that is no number at all *)
RowBadAmount ==
  <<<<"2", "0", "2", "4", "0", "4", "0", "1">>,
    <<"S", "h", "o", "p">>,
    <<"I", "n", "v", "o", "i", "c", "e">>,
    <<"U", "S", "D", " ", "7">>>>

Rows02 ==
  {Row0, Row2, RowEmptyFragment, RowBadDate, RowNumericFragment,
   RowLeadingSeparator, RowBadAmount}

RECURSIVE SeqsUpTo(_, _)
SeqsUpTo(S, n) ==
  IF n = 0 THEN {<<>>}
  ELSE LET shorter == SeqsUpTo(S, n - 1)
       IN shorter \cup {Append(f, r) : f \in shorter, r \in S}

(* The contents 02.csv may have. *)
Files02 == SeqsUpTo(Rows02, MaxRows)

(* 01.csv holds the transactions of 02.csv in the clean layout: the date   *)
(* as year-month-day, one description column, no thousands separator.      *)
IsoText(d) ==
  IF Len(d) = 8 /\ AllDigits(d)
  THEN SubSeq(d, 1, 4) \o <<"-">> \o SubSeq(d, 5, 6) \o <<"-">> \o SubSeq(d, 7, 8)
  ELSE d

Row01(r) == <<IsoText(r[1]), r[2] \o Separator \o r[3], Remove(r[4], Comma)>>

File01(f02) == [i \in 1..Len(f02) |-> Row01(f02[i])]

Header01 == <<"date", "description", "amount">>

Header02 ==
  <<"transaction date", "transaction description", "detailed description",
    "amount ($)">>

Header(name) == IF name = "01.csv" THEN Header01 ELSE Header02

----------------------------------------------------------------------------
(* DataFrame values *)

Str(t) == [k |-> "str", s |-> t, n |-> 0, e |-> 0]

NaN == [k |-> "nan", s |-> <<>>, n |-> 0, e |-> 0]

(* A number is the exact decimal n / 10^e with no trailing zero in the     *)
(* fraction; int64 and float64 columns are both dtype "number".            *)
RECURSIVE Num(_, _)
Num(n, e) ==
  IF e > 0 /\ n % 10 = 0 THEN Num(n \div 10, e - 1)
  ELSE [k |-> "num", s |-> <<>>, n |-> n, e |-> e]

Timestamp(y, m, d) == [k |-> "date", s |-> <<>>, n |-> y * 10000 + m * 100 + d, e |-> 0]

DataFrame(columns, dtypes, data) ==
  [columns |-> columns, dtypes |-> dtypes, data |-> data, err |-> ""]

(* What a cell shows instead of a frame when a statement raises. *)
Raised(exception) ==
  [columns |-> <<>>, dtypes |-> <<>>, data |-> <<>>, err |-> exception]

(* The name `transactions` before any cell has run, and a cell's output    *)
(* before the cell has run.                                                *)
Unbound == Raised("NameError")

NoOutput == Raised("not run")

IsFrame(f) == f.err = ""

NumRows(f) == IF f.data = <<>> THEN 0 ELSE Len(f.data[1])

HasColumn(f, name) == \E j \in 1..Len(f.columns) : f.columns[j] = name

ColumnIndex(f, name) == CHOOSE j \in 1..Len(f.columns) : f.columns[j] = name

----------------------------------------------------------------------------
(* pandas.read_csv *)

(* Default na_values: the empty field and markers such as "NA". *)
NAValues == {<<>>, <<"N", "A">>}

IsNA(t) == t \in NAValues

Unsigned(t) == IF t # <<>> /\ t[1] \in {"-", "+"} THEN Tail(t) ELSE t

Sign(t) == IF t # <<>> /\ t[1] = "-" THEN -1 ELSE 1

(* str_to_int64: an optional sign, a first digit, then digits and          *)
(* separators in any mix up to the end of the field.                       *)
IsInt(t, thousands) ==
  LET b == Unsigned(t)
  IN /\ b # <<>>
     /\ IsDigit(b[1])
     /\ \A i \in 1..Len(b) :
          IsDigit(b[i]) \/ (thousands # NoThousands /\ b[i] = thousands)

(* The field up to its first decimal point, and the field after it. *)
PointAt(b) ==
  IF \E i \in 1..Len(b) : b[i] = "."
  THEN CHOOSE i \in 1..Len(b) : b[i] = "." /\ \A j \in 1..(i - 1) : b[j] # "."
  ELSE Len(b) + 1

IntegerPart(b) == SubSeq(b, 1, PointAt(b) - 1)

Fraction(b) == SubSeq(b, PointAt(b) + 1, Len(b))

(* A grouping-aware variant of IsFloat: a separator counts only in front   *)
(* of a group of exactly three digits.                                     *)
IsFloatGrouped(t, thousands) ==
  LET b  == Unsigned(t)
      ip == IntegerPart(b)
      fp == Fraction(b)
  IN /\ \A i \in 1..Len(ip) :
          \/ IsDigit(ip[i])
          \/ /\ thousands # NoThousands /\ ip[i] = thousands
             /\ i > 1 /\ IsDigit(ip[i - 1])
             /\ i + 3 <= Len(ip)
             /\ \A j \in (i + 1)..(i + 3) : IsDigit(ip[j])
             /\ (i + 3 = Len(ip) \/ ip[i + 4] = thousands)
     /\ AllDigits(fp)
     /\ \E i \in 1..Len(b) : IsDigit(b[i])

(* precise_xstrtod: an optional sign, digits each of which may be followed *)
(* by one separator, an optional decimal point followed by digits only,    *)
(* at least one digit in all, and nothing left over.                       *)
IsFloat(t, thousands) ==
  LET b  == Unsigned(t)
      ip == IntegerPart(b)
      fp == Fraction(b)
  IN /\ \A i \in 1..Len(ip) :
          \/ IsDigit(ip[i])
          \/ thousands # NoThousands /\ ip[i] = thousands /\ i > 1 /\ IsDigit(ip[i - 1])
     /\ AllDigits(fp)
     /\ \E i \in 1..Len(b) : IsDigit(b[i])

ToNumber(t, thousands) ==
  LET b  == Unsigned(t)
      ip == Remove(IntegerPart(b), thousands)
      fp == Fraction(b)
  IN Num(Sign(t) * NatVal(ip \o fp), Len(fp))

(* A variant of infer_types that coerces field by field, as to_numeric     *)
(* with errors="coerce" does: a field that is no number becomes missing.   *)
infer_types_coerce(fields, thousands) ==
  [dtype |-> "number",
   cells |-> [i \in 1..Len(fields) |->
                IF IsInt(fields[i], thousands)
                THEN ToNumber(Remove(fields[i], thousands), NoThousands)
                ELSE IF IsFloat(fields[i], thousands)
                THEN ToNumber(fields[i], thousands)
                ELSE NaN]]

(* A variant of infer_types that removes the separator from the text of    *)
(* object columns too.                                                     *)
infer_types_strip_text(fields, thousands) ==
  IF fields # <<>> /\ \A i \in 1..Len(fields) : IsInt(fields[i], thousands)
  THEN [dtype |-> "number",
        cells |-> [i \in 1..Len(fields) |-> ToNumber(Remove(fields[i], thousands), NoThousands)]]
  ELSE IF fields # <<>> /\ \A i \in 1..Len(fields) :
                              IsNA(fields[i]) \/ IsFloat(fields[i], thousands)
  THEN [dtype |-> "number",
        cells |-> [i \in 1..Len(fields) |->
                     IF IsNA(fields[i]) THEN NaN ELSE ToNumber(fields[i], thousands)]]
  ELSE [dtype |-> "object",
        cells |-> [i \in 1..Len(fields) |->
                     IF IsNA(fields[i]) THEN NaN ELSE Str(Remove(fields[i], thousands))]]

(* Type inference of one column: int64 if every field is an integer,       *)
(* float64 if every field is a float or NA, otherwise object, where the    *)
(* fields stay as they are written.                                        *)
infer_types(fields, thousands) ==
  IF fields # <<>> /\ \A i \in 1..Len(fields) : IsInt(fields[i], thousands)
  THEN [dtype |-> "number",
        cells |-> [i \in 1..Len(fields) |-> ToNumber(Remove(fields[i], thousands), NoThousands)]]
  ELSE IF fields # <<>> /\ \A i \in 1..Len(fields) :
                              IsNA(fields[i]) \/ IsFloat(fields[i], thousands)
  THEN [dtype |-> "number",
        cells |-> [i \in 1..Len(fields) |->
                     IF IsNA(fields[i]) THEN NaN ELSE ToNumber(fields[i], thousands)]]
  ELSE [dtype |-> "object",
        cells |-> [i \in 1..Len(fields) |->
                     IF IsNA(fields[i]) THEN NaN ELSE Str(fields[i])]]

IsLeap(y) == (y % 4 = 0 /\ y % 100 # 0) \/ y % 400 = 0

DaysInMonth(y, m) ==
  IF m = 2 THEN (IF IsLeap(y) THEN 29 ELSE 28)
  ELSE IF m \in {4, 6, 9, 11} THEN 30 ELSE 31

(* to_datetime with format="%Y%m%d" on one field. *)
MatchesFormat(t) ==
  /\ Len(t) = 8
  /\ AllDigits(t)
  /\ LET y == NatVal(SubSeq(t, 1, 4))
         m == NatVal(SubSeq(t, 5, 6))
         d == NatVal(SubSeq(t, 7, 8))
     IN m \in 1..12 /\ d \in 1..DaysInMonth(y, m)

(* A variant of to_datetime that reads the format as %Y%d%m. *)
to_datetime_day_first(t) ==
  Timestamp(NatVal(SubSeq(t, 1, 4)), NatVal(SubSeq(t, 7, 8)), NatVal(SubSeq(t, 5, 6)))

to_datetime(t) ==
  Timestamp(NatVal(SubSeq(t, 1, 4)), NatVal(SubSeq(t, 5, 6)), NatVal(SubSeq(t, 7, 8)))

(* A variant of the date converter that coerces field by field, as         *)
(* to_datetime with errors="coerce" does: a field that does not match      *)
(* becomes missing and the others are parsed.                              *)
date_converter_coerce(fields) ==
  [dtype |-> "datetime",
   cells |-> [i \in 1..Len(fields) |->
                IF MatchesFormat(fields[i]) THEN to_datetime(fields[i]) ELSE NaN]]

(* A variant of the date converter that returns the dates in ascending     *)
(* order of the lines, last line first.                                    *)
date_converter_reversed(fields) ==
  IF \A i \in 1..Len(fields) : MatchesFormat(fields[i])
  THEN [dtype |-> "datetime",
        cells |-> [i \in 1..Len(fields) |-> to_datetime(fields[Len(fields) + 1 - i])]]
  ELSE [dtype |-> "object",
        cells |-> [i \in 1..Len(fields) |-> Str(fields[Len(fields) + 1 - i])]]

(* The date converter of parse_dates=[0]: the column becomes datetime64    *)
(* if every field matches date_format; if to_datetime raises on any field  *)
(* the converter returns the column of strings it was given.               *)
date_converter(fields) ==
  IF \A i \in 1..Len(fields) : MatchesFormat(fields[i])
  THEN [dtype |-> "datetime",
        cells |-> [i \in 1..Len(fields) |-> to_datetime(fields[i])]]
  ELSE [dtype |-> "object",
        cells |-> [i \in 1..Len(fields) |-> Str(fields[i])]]

Pad(n, width) ==
  [i \in 1..width |-> Digits[((n \div (10 ^ (width - i))) % 10) + 1]]

(* How print shows a datetime64 value: year-month-day. *)
isoformat(date) ==
  Pad(date.n \div 10000, 4) \o <<"-">> \o Pad((date.n \div 100) % 100, 2)
    \o <<"-">> \o Pad(date.n % 100, 2)

read_csv(name, lines, parse_dates, thousands) ==
  LET header   == Header(name)
      field(j) == [i \in 1..Len(lines) |-> lines[i][j]]
      conv(j)  == IF parse_dates /\ j = 1
                  THEN date_converter(field(j))
                  ELSE infer_types(field(j), thousands)
  IN DataFrame(header,
               [j \in 1..Len(header) |-> conv(j).dtype],
               [j \in 1..Len(header) |-> conv(j).cells])

----------------------------------------------------------------------------
(* The statements after the load *)

(* The columns= argument of DataFrame.rename in cell 11; a name that is    *)
(* not a key of the mapping, or a key that names no column, is left alone. *)
RenameMap(name) ==
  CASE name = "transaction date" -> "date"
    [] name = "transaction description" -> "description"
    [] name = "detailed description" -> "detailed"
    [] name = "amount ($)" -> "amount"
    [] OTHER -> name

rename(f) ==
  DataFrame([j \in 1..Len(f.columns) |-> RenameMap(f.columns[j])], f.dtypes, f.data)

(* Series + " - ": defined on an object column, where a missing value      *)
(* stays missing; a numeric or datetime column raises.                     *)
add_scalar(dtype, cells, text) ==
  IF dtype # "object" THEN Raised("TypeError")
  ELSE DataFrame(<<"">>, <<"object">>,
         <<[i \in 1..Len(cells) |->
              IF cells[i].k = "str" THEN Str(cells[i].s \o text) ELSE NaN]>>)

(* A variant of add_series that keeps only the rows where both sides are   *)
(* present, as concatenating after dropna does.                            *)
add_series_dropna(left, right) ==
  IF \E i \in 1..Len(left) :
       left[i].k # "nan" /\ right[i].k # "nan" /\ right[i].k # "str"
  THEN Raised("TypeError")
  ELSE LET both == {i \in 1..Len(left) : left[i].k = "str" /\ right[i].k = "str"}
           RECURSIVE Kept(_)
           Kept(n) ==
             IF n = 0 THEN <<>>
             ELSE IF n \in both
             THEN Append(Kept(n - 1), Str(left[n].s \o right[n].s))
             ELSE Kept(n - 1)
       IN DataFrame(<<"">>, <<"object">>, <<Kept(Len(left))>>)

(* A variant of add_series that takes a missing value for the empty        *)
(* string, as concatenating after fillna("") does.                         *)
add_series_fillna(left, right) ==
  IF \E i \in 1..Len(left) :
       left[i].k # "nan" /\ right[i].k # "nan" /\ right[i].k # "str"
  THEN Raised("TypeError")
  ELSE DataFrame(<<"">>, <<"object">>,
         <<[i \in 1..Len(left) |-> Str(left[i].s \o right[i].s)]>>)

(* object Series + Series, element by element: two strings concatenate, a  *)
(* missing value on either side gives a missing value, a string and a      *)
(* number raise.                                                           *)
add_series(left, right) ==
  IF \E i \in 1..Len(left) :
       left[i].k # "nan" /\ right[i].k # "nan" /\ right[i].k # "str"
  THEN Raised("TypeError")
  ELSE DataFrame(<<"">>, <<"object">>,
         <<[i \in 1..Len(left) |->
              IF left[i].k = "str" /\ right[i].k = "str"
              THEN Str(left[i].s \o right[i].s)
              ELSE NaN]>>)

(* transactions[a] = transactions[a] + " - " + transactions[b] *)
concatenate(f, a, b) ==
  IF ~HasColumn(f, a) \/ ~HasColumn(f, b) THEN Raised("KeyError")
  ELSE LET ja   == ColumnIndex(f, a)
           jb   == ColumnIndex(f, b)
           left == add_scalar(f.dtypes[ja], f.data[ja], Separator)
       IN IF ~IsFrame(left) THEN left
          ELSE LET sum == add_series(left.data[1], f.data[jb])
               IN IF ~IsFrame(sum) THEN sum
                  ELSE DataFrame(f.columns,
                                 [f.dtypes EXCEPT ![ja] = "object"],
                                 [f.data EXCEPT ![ja] = sum.data[1]])

Without(seq, j) == SubSeq(seq, 1, j - 1) \o SubSeq(seq, j + 1, Len(seq))

(* transactions.drop(column, axis=1, inplace=True) *)
drop(f, column) ==
  IF ~HasColumn(f, column) THEN Raised("KeyError")
  ELSE LET j == ColumnIndex(f, column)
       IN DataFrame(Without(f.columns, j), Without(f.dtypes, j), Without(f.data, j))

----------------------------------------------------------------------------
(* The code cells *)

Cells == {1, 3, 5, 7, 9, 11}

Load(file, parse_dates, thousands) ==
  [op |-> "read_csv", file |-> file, parse_dates |-> parse_dates,
   thousands |-> thousands, a |-> "", b |-> ""]

Stmt(op, a, b) ==
  [op |-> op, file |-> "", parse_dates |-> FALSE, thousands |-> NoThousands,
   a |-> a, b |-> b]

Program(c) ==
  CASE c = 1 -> <<Load("01.csv", FALSE, NoThousands), Stmt("print", "", "")>>
    [] c = 3 -> <<Load("02.csv", FALSE, NoThousands), Stmt("print", "", "")>>
    [] c = 5 -> <<Load("02.csv", TRUE, NoThousands), Stmt("print", "", "")>>
    [] c = 7 -> <<Load("02.csv", TRUE, NoThousands),
                  Stmt("concatenate", "transaction description", "detailed description"),
                  Stmt("drop", "detailed description", ""),
                  Stmt("print", "", "")>>
    [] c = 9 -> <<Load("02.csv", TRUE, Comma),
                  Stmt("concatenate", "transaction description", "detailed description"),
                  Stmt("drop", "detailed description", ""),
                  Stmt("print", "", "")>>
    [] c = 11 -> <<Load("02.csv", TRUE, Comma),
                   Stmt("rename", "", ""),
                   Stmt("concatenate", "description", "detailed"),
                   Stmt("drop", "detailed", ""),
                   Stmt("print", "", "")>>

----------------------------------------------------------------------------
(* The kernel.  pc[p] is the cell and the statement that execution p is    *)
(* about to run; the notebook is run by execution 1.                       *)

Executions == {1, 2}

Idle == [cell |-> 0, i |-> 0]

Running(p) == pc[p] # Idle

Current(p) == Program(pc[p].cell)[pc[p].i]

(* A fresh kernel next to one pair of export files. *)
Fresh(contents02) ==
  /\ \E f02 \in contents02 : files = [name \in {"01.csv", "02.csv"} |->
                                        IF name = "01.csv" THEN File01(f02) ELSE f02]
  /\ transactions = Unbound
  /\ pc = [p \in Executions |-> Idle]
  /\ printed = [p \in Executions |-> [c \in Cells |-> NoOutput]]

Init == Fresh(Files02)

(* A statement that ran to its end hands over to the next one; one that    *)
(* raised ends the cell, which shows the exception in place of its output, *)
(* and leaves `transactions` as it was.                                    *)
Finish(p, result) ==
  IF IsFrame(result)
  THEN /\ transactions' = result
       /\ pc' = [pc EXCEPT ![p].i = @ + 1]
       /\ UNCHANGED printed
  ELSE /\ pc' = [pc EXCEPT ![p] = Idle]
       /\ printed' = [printed EXCEPT ![p][pc[p].cell] = result]
       /\ UNCHANGED transactions

(* A variant of the load that reads the file only while `transactions`     *)
(* is unbound and keeps the frame of the previous cell otherwise.          *)
ReadCsvStmtOnce(p, c) ==
  /\ ~Running(p)
  /\ LET st == Program(c)[1]
     IN transactions' =
          IF IsFrame(transactions) THEN transactions
          ELSE read_csv(st.file, files[st.file], st.parse_dates, st.thousands)
  /\ pc' = [pc EXCEPT ![p] = [cell |-> c, i |-> 2]]
  /\ UNCHANGED <<files, printed>>

(* transactions = pd.read_csv(...), the first statement of every cell. *)
ReadCsvStmt(p, c) ==
  /\ ~Running(p)
  /\ LET st == Program(c)[1]
     IN transactions' = read_csv(st.file, files[st.file], st.parse_dates, st.thousands)
  /\ pc' = [pc EXCEPT ![p] = [cell |-> c, i |-> 2]]
  /\ UNCHANGED <<files, printed>>

(* A variant of the rename statement without inplace=True: the renamed     *)
(* frame is discarded.                                                     *)
RenameStmtNotInPlace(p) ==
  /\ Running(p)
  /\ Current(p).op = "rename"
  /\ pc' = [pc EXCEPT ![p].i = @ + 1]
  /\ UNCHANGED <<files, transactions, printed>>

RenameStmt(p) ==
  /\ Running(p)
  /\ Current(p).op = "rename"
  /\ Finish(p, rename(transactions))
  /\ UNCHANGED files

ConcatenateStmt(p) ==
  /\ Running(p)
  /\ Current(p).op = "concatenate"
  /\ Finish(p, concatenate(transactions, Current(p).a, Current(p).b))
  /\ UNCHANGED files

DropStmt(p) ==
  /\ Running(p)
  /\ Current(p).op = "drop"
  /\ Finish(p, drop(transactions, Current(p).a))
  /\ UNCHANGED files

PrintStmt(p) ==
  /\ Running(p)
  /\ Current(p).op = "print"
  /\ printed' = [printed EXCEPT ![p][pc[p].cell] = transactions]
  /\ pc' = [pc EXCEPT ![p] = Idle]
  /\ UNCHANGED <<files, transactions>>

(* The notebook: one execution, any cell at any time, a cell's statements  *)
(* in order.                                                               *)
Next ==
  \/ \E c \in Cells : ReadCsvStmt(1, c)
  \/ RenameStmt(1)
  \/ ConcatenateStmt(1)
  \/ DropStmt(1)
  \/ PrintStmt(1)

Spec == Init /\ [][Next]_vars

(* Two executions of cell 11 over the one global `transactions`, their     *)
(* statements interleaved in any way.                                      *)
NextInterleaved ==
  \E p \in Executions :
    \/ ReadCsvStmt(p, 11)
    \/ RenameStmt(p)
    \/ ConcatenateStmt(p)
    \/ DropStmt(p)
    \/ PrintStmt(p)

(* The files the interleaved executions read: the recorded lines, a line   *)
(* with a missing fragment and a line on which the concatenation raises.   *)
InitInterleaved ==
  Fresh(SeqsUpTo({Row0, Row2, RowEmptyFragment, RowNumericFragment}, MaxRows))

SpecInterleaved == InitInterleaved /\ [][NextInterleaved]_vars

----------------------------------------------------------------------------
(* What a cell prints when nothing else runs between its statements. *)

Apply(st, f) ==
  CASE st.op = "rename" -> rename(f)
    [] st.op = "concatenate" -> concatenate(f, st.a, st.b)
    [] st.op = "drop" -> drop(f, st.a)

(* `transactions` before statement i of cell c, or the exception raised    *)
(* by an earlier statement.                                                *)
RECURSIVE Before(_, _)
Before(c, i) ==
  IF i = 2
  THEN LET st == Program(c)[1]
       IN read_csv(st.file, files[st.file], st.parse_dates, st.thousands)
  ELSE LET f == Before(c, i - 1)
       IN IF IsFrame(f) THEN Apply(Program(c)[i - 1], f) ELSE f

RunAlone(c) == Before(c, Len(Program(c)))

Lines02 == files["02.csv"]

Output(c) == printed[1][c]

Ran(c) == Output(c) # NoOutput

Thousands(c) == Program(c)[1].thousands

(* The cells that concatenate the fragments, those that parse dates, and   *)
(* those that read 02.csv.                                                 *)
Concatenating == {7, 9, 11}

ParsingDates == {5, 7, 9, 11}

Reading02 == {3, 5, 7, 9, 11}

DateColumn(f) == f.data[1]

DescriptionColumn(f) == f.data[2]

AmountColumn(f) == f.data[Len(f.data)]

----------------------------------------------------------------------------
(* Properties *)

(* C1: a cell that prints a frame prints exactly one row per line of the   *)
(* file it read, in every column, also after the fragment columns are      *)
(* concatenated and the second one is dropped.                             *)
C1_RowCount ==
  \A c \in Cells :
    IsFrame(Output(c)) /\ Ran(c) =>
      /\ Output(c).data # <<>>
      /\ \A j \in 1..Len(Output(c).data) :
           Len(Output(c).data[j]) = Len(files[Program(c)[1].file])

C1_Witness ==
  /\ IsFrame(Output(11))
  /\ Len(Output(11).columns) = 3
  /\ Len(Lines02) = MaxRows
  /\ NumRows(Output(11)) = MaxRows

(* The cell of the date, description and amount column that line r of      *)
(* 02.csv yields under a column dtype.                                     *)
DateFrom(r, dtype) ==
  IF dtype = "datetime" THEN to_datetime(r[1]) ELSE Str(r[1])

DescriptionFrom(r) ==
  IF IsNA(r[2]) \/ IsNA(r[3]) THEN NaN ELSE Str(r[2] \o Separator \o r[3])

AmountFrom(r, dtype, thousands) ==
  IF IsNA(r[4]) THEN NaN
  ELSE IF dtype = "number" THEN ToNumber(Remove(r[4], thousands), NoThousands)
  ELSE Str(r[4])

(* C2: row i of the output of a normalizing cell is made of line i of the  *)
(* file and of no other line: its date, description and amount are those   *)
(* of line i, whatever the order of the dates in the file.                 *)
C2_OrderPreserved ==
  \A c \in Concatenating :
    IsFrame(Output(c)) /\ Ran(c) =>
      /\ NumRows(Output(c)) = Len(Lines02)
      /\ \A i \in 1..Len(Lines02) :
           /\ DateColumn(Output(c))[i] = DateFrom(Lines02[i], Output(c).dtypes[1])
           /\ DescriptionColumn(Output(c))[i] = DescriptionFrom(Lines02[i])
           /\ AmountColumn(Output(c))[i] =
                AmountFrom(Lines02[i], Output(c).dtypes[3], Thousands(c))

(* Dates ascending in the file (the bank's export has them descending)     *)
(* and still ascending, unsorted, in the output.                           *)
C2_Witness ==
  /\ Lines02 = <<Row2, Row0>>
  /\ IsFrame(Output(11))
  /\ DateColumn(Output(11))[1].n < DateColumn(Output(11))[2].n
  /\ AmountColumn(Output(11)) = <<Num(123456, 2), Num(-12345, 2)>>

(* C3 as stated: the description of every row is the two fragments joined  *)
(* by " - ", an empty fragment contributing an empty segment.              *)
C3_AlwaysJoined ==
  \A c \in Concatenating :
    IsFrame(Output(c)) /\ Ran(c) =>
      \A i \in 1..Len(Lines02) :
        DescriptionColumn(Output(c))[i] =
          Str(Lines02[i][2] \o Separator \o Lines02[i][3])

(* C3 amended: the description of a row is the two fragments joined by     *)
(* " - " when both are present; a row with an empty fragment, which        *)
(* read_csv reads as missing, gets a missing description.                  *)
C3_JoinedOrMissing ==
  \A c \in Concatenating :
    IsFrame(Output(c)) /\ Ran(c) =>
      \A i \in 1..Len(Lines02) :
        DescriptionColumn(Output(c))[i] =
          IF Lines02[i][2] \in NAValues \/ Lines02[i][3] \in NAValues
          THEN NaN
          ELSE Str(Lines02[i][2] \o Separator \o Lines02[i][3])

C3_Witness ==
  /\ Lines02 = <<Row2, RowEmptyFragment>>
  /\ IsFrame(Output(7))
  /\ DescriptionColumn(Output(7))[1].k = "str"
  /\ Len(DescriptionColumn(Output(7))[1].s) = 24
  /\ DescriptionColumn(Output(7))[2] = NaN

(* A signed decimal with "." as decimal point: an optional sign, digits,   *)
(* at most one point, at least one digit.                                  *)
IsDecimal(t) ==
  LET b == Unsigned(t)
  IN /\ \A i \in 1..Len(b) : IsDigit(b[i]) \/ b[i] = "."
     /\ Cardinality({i \in 1..Len(b) : b[i] = "."}) <= 1
     /\ \E i \in 1..Len(b) : IsDigit(b[i])

(* Every separator of the amount stands right after a digit of the         *)
(* integer part.                                                           *)
SeparatorsFollowDigits(t) ==
  LET b == Unsigned(t)
  IN \A i \in 1..Len(b) :
       b[i] = Comma => i > 1 /\ IsDigit(b[i - 1]) /\ i < PointAt(b)

AmountsStripped(c) ==
  \A i \in 1..Len(Lines02) :
    AmountColumn(Output(c))[i] = ToNumber(Remove(Lines02[i][4], Comma), NoThousands)

(* C4 as stated: with thousands="," the separator is removed wherever it   *)
(* stands in the amount and the rest is parsed as a signed decimal.        *)
C4_StrippedAnywhere ==
  \A c \in {9, 11} :
    /\ IsFrame(Output(c)) /\ Ran(c)
    /\ \A i \in 1..Len(Lines02) : IsDecimal(Remove(Lines02[i][4], Comma))
    => AmountsStripped(c)

LeadingSeparator(t) == Unsigned(t) # <<>> /\ Unsigned(t)[1] = Comma

(* C4 amended: with thousands="," a separator is removed wherever it       *)
(* follows a digit of the integer part, in groups of three or not, and the *)
(* rest is parsed as a signed decimal keeping its sign; an amount that     *)
(* starts with the separator is not parsed and the column stays text.      *)
C4_StrippedAfterDigits ==
  \A c \in {9, 11} :
    IsFrame(Output(c)) /\ Ran(c) =>
      /\ (\A i \in 1..Len(Lines02) :
            /\ IsDecimal(Remove(Lines02[i][4], Comma))
            /\ SeparatorsFollowDigits(Lines02[i][4]))
         => AmountsStripped(c)
      /\ (\E i \in 1..Len(Lines02) : LeadingSeparator(Lines02[i][4]))
         => \A i \in 1..Len(Lines02) : AmountColumn(Output(c))[i].k # "num"

(* "1,234.56" gives 1234.56 and "1,23" gives 123. *)
C4_Witness ==
  /\ Lines02 = <<Row2, RowEmptyFragment>>
  /\ IsFrame(Output(9))
  /\ AmountColumn(Output(9)) = <<Num(123456, 2), Num(123, 0)>>

SomeDateMismatches == \E i \in 1..Len(Lines02) : ~MatchesFormat(Lines02[i][1])

(* C5 as stated: a date text that does not match %Y%m%d makes the load     *)
(* fail; no frame is produced in which the text survives.                  *)
C5_MismatchFails ==
  \A c \in ParsingDates : Ran(c) /\ SomeDateMismatches => ~IsFrame(Output(c))

(* C5 amended: a date text that does not match %Y%m%d raises nothing; the  *)
(* load returns the date column unparsed, the text as written in every     *)
(* row.  When every text matches, every date is the parsed calendar date.  *)
C5_MismatchKeepsText ==
  /\ Ran(5) => IsFrame(Output(5))
  /\ \A c \in ParsingDates :
       IsFrame(Output(c)) /\ Ran(c) =>
         \A i \in 1..Len(Lines02) :
           DateColumn(Output(c))[i] =
             IF SomeDateMismatches THEN Str(Lines02[i][1])
             ELSE to_datetime(Lines02[i][1])

C5_Witness ==
  /\ Lines02 = <<RowBadDate, Row0>>
  /\ IsFrame(Output(5))
  /\ DateColumn(Output(5)) = <<Str(RowBadDate[1]), Str(Row0[1])>>

HasSeparator(t) == \E i \in 1..Len(t) : t[i] = Comma

C7_Deterministic ==
  [][\A c \in Cells : Ran(c) => printed'[1][c] = printed[1][c]]_vars

(* Cell 11 has printed a frame, has been run again after other cells, and  *)
(* is about to print the same frame.                                       *)
C7_Witness ==
  /\ IsFrame(Output(11))
  /\ Ran(9) /\ Ran(3)
  /\ Len(Lines02) = MaxRows
  /\ pc[1] = [cell |-> 11, i |-> 5]
  /\ transactions = Output(11)

(* C8 as stated: each of two interleaved executions prints what it prints  *)
(* when run alone.                                                         *)
C8_Reentrant ==
  \A p \in Executions :
    printed[p][11] # NoOutput => printed[p][11] = RunAlone(11)

(* `transactions` is what an undisturbed run of p's cell has made of it,   *)
(* as a predicate of the value of `transactions` and of p's position.      *)
OnTrack(frame, at) == at # Idle => frame = Before(at.cell, at.i)

(* C8 amended: no statement changes the files, and a statement of an       *)
(* execution that has not been disturbed leaves it undisturbed and, when   *)
(* it ends the cell, prints what the cell prints run alone; only a         *)
(* statement of the other execution, which works on the same global        *)
(* `transactions`, can make the two differ.                                *)
C8_AloneUnlessDisturbed ==
  [][/\ files' = files
     /\ \A p \in Executions :
          pc'[p] # pc[p] /\ OnTrack(transactions, pc[p]) =>
            /\ OnTrack(transactions', pc'[p])
            /\ pc'[p] = Idle => printed'[p][pc[p].cell] = RunAlone(pc[p].cell)]_vars

(* One execution has printed what it prints alone; the other, disturbed,   *)
(* has printed something else.                                             *)
C8_Witness ==
  /\ IsFrame(printed[1][11])
  /\ printed[1][11] = RunAlone(11)
  /\ printed[2][11] # NoOutput
  /\ printed[2][11] # RunAlone(11)

(* Cell 11 has coerced every column of 02.csv: dates parsed, no fragment   *)
(* missing, amounts numeric.                                               *)
AllCoerced ==
  /\ Output(11).dtypes = <<"datetime", "object", "number">>
  /\ \A i \in 1..Len(Lines02) : DescriptionColumn(Output(11))[i] # NaN

(* C9 as stated: cell 11 on 02.csv, every column coerced, and cell 1 on    *)
(* 01.csv print the same table.                                            *)
C9_SameTable ==
  /\ IsFrame(Output(1)) /\ Ran(1)
  /\ IsFrame(Output(11)) /\ Ran(11)
  /\ AllCoerced
  => /\ Output(1).columns = Output(11).columns
     /\ Output(1).data = Output(11).data

(* C9 amended: when cell 11 coerces every column of 02.csv (dates parsed,  *)
(* no fragment missing, amounts numeric), it prints the descriptions and   *)
(* amounts that cell 1 prints for 01.csv, row by row, under the same       *)
(* column names, and its dates display as the text cell 1 holds; cell 1    *)
(* itself keeps the date as text, cell 11 as a parsed date.                *)
C9_SameValuesDateAsText ==
  /\ IsFrame(Output(1)) /\ Ran(1)
  /\ IsFrame(Output(11)) /\ Ran(11)
  /\ AllCoerced
  => /\ Output(1).columns = Output(11).columns
     /\ NumRows(Output(1)) = NumRows(Output(11))
     /\ DescriptionColumn(Output(1)) = DescriptionColumn(Output(11))
     /\ AmountColumn(Output(1)) = AmountColumn(Output(11))
     /\ \A i \in 1..Len(Lines02) :
          /\ DateColumn(Output(11))[i].k = "date"
          /\ DateColumn(Output(1))[i] = Str(isoformat(DateColumn(Output(11))[i]))

(* The outputs recorded under cell 1 and cell 11. *)
C9_Witness ==
  /\ Lines02 = <<Row0, Row2>>
  /\ IsFrame(Output(1)) /\ IsFrame(Output(11))
  /\ AmountColumn(Output(1)) = <<Num(-12345, 2), Num(123456, 2)>>
  /\ DateColumn(Output(11)) = <<Timestamp(2024, 4, 4), Timestamp(2024, 4, 2)>>

BothRan(c, d) == Ran(c) /\ Ran(d)

(* Parsing dates (cell 5 against cell 3) changes the date column only. *)
DatesOnly ==
  BothRan(3, 5) /\ IsFrame(Output(3)) /\ IsFrame(Output(5)) =>
    /\ Output(5).columns = Output(3).columns
    /\ \A j \in 2..4 : Output(5).data[j] = Output(3).data[j]

(* Concatenating (cell 7 against cell 5) changes the description only and  *)
(* removes the second fragment column only.                                *)
DescriptionOnly ==
  BothRan(5, 7) /\ IsFrame(Output(5)) /\ IsFrame(Output(7)) =>
    /\ Output(7).columns = Without(Output(5).columns, 3)
    /\ Output(7).data[1] = Output(5).data[1]
    /\ Output(7).data[3] = Output(5).data[4]

(* The thousands separator (cell 9 against cell 7) changes the amount      *)
(* column only.                                                            *)
AmountOnly ==
  BothRan(7, 9) =>
    /\ IsFrame(Output(7)) <=> IsFrame(Output(9))
    /\ IsFrame(Output(7)) /\ IsFrame(Output(9)) =>
         /\ Output(9).columns = Output(7).columns
         /\ Output(9).data[1] = Output(7).data[1]
         /\ Output(9).data[2] = Output(7).data[2]

(* Renaming before concatenating (cell 11 against cell 9) changes the      *)
(* column names and no value.                                              *)
NamesOnly ==
  BothRan(9, 11) =>
    /\ IsFrame(Output(9)) <=> IsFrame(Output(11))
    /\ IsFrame(Output(9)) /\ IsFrame(Output(11)) =>
         /\ Output(11).data = Output(9).data
         /\ Output(11).columns =
              [j \in 1..Len(Output(9).columns) |-> RenameMap(Output(9).columns[j])]

(* C10 as stated: each step changes its own field and no other. *)
C10_OwnFieldOnly == DatesOnly /\ DescriptionOnly /\ AmountOnly /\ NamesOnly

(* read_csv reads both fragment columns with the same dtype whether or not *)
(* the separator is configured.                                            *)
FragmentsReadAlike ==
  \A j \in {2, 3} :
    LET fields == [i \in 1..Len(Lines02) |-> Lines02[i][j]]
    IN infer_types(fields, Comma).dtype = infer_types(fields, NoThousands).dtype

(* C10 amended: as stated, except that the thousands separator is applied  *)
(* to every column read as numbers: it leaves the descriptions alone       *)
(* unless a fragment column holds nothing but numbers written with the     *)
(* separator, which is then read as numbers too.                           *)
C10_OwnFieldUnlessNumeric ==
  /\ DatesOnly
  /\ DescriptionOnly
  /\ FragmentsReadAlike => AmountOnly
  /\ NamesOnly

(* A description with a separator in it, among descriptions that are text, *)
(* keeps it when the amounts lose theirs.                                  *)
C10_Witness ==
  /\ Lines02 = <<Row2, RowNumericFragment>>
  /\ \A c \in Reading02 : IsFrame(Output(c))
  /\ DescriptionColumn(Output(9))[2] =
       Str(RowNumericFragment[2] \o Separator \o RowNumericFragment[3])
  /\ AmountColumn(Output(7))[1] = Str(Row2[4])
  /\ AmountColumn(Output(9))[1] = Num(123456, 2)

====
